---- MODULE Spec2Model ----
(***************************************************************************)
(* goreplace (src/goreplace.go): main parses the options, builds the list  *)
(* of changesets and starts one goroutine per input file.  Each goroutine  *)
(* runs applyChangesetsToFile and sends one changeresult on the unbuffered *)
(* channel `results`; a further goroutine waits on the WaitGroup and       *)
(* closes the channel; main prints the results when --verbose is set and   *)
(* calls os.Exit(0).                                                       *)
(*                                                                         *)
(* Text is a sequence of one-character strings.  A search term is compiled *)
(* with --regex, --ignore-case and --regex-posix off, so the matcher is    *)
(* the literal term; --regex-backrefs is off.  With --regex the terms of   *)
(* the model are either plain letters, which compile to the same literal   *)
(* matcher, or "(", which does not compile.  --path names a directory,     *)
(* given by the files the walk finds in it; the name filters are unset.    *)
(* Init and InitEngine take pairwise different paths and no --path;        *)
(* InitPaths takes any list of paths.  A goroutine that panics ends the    *)
(* process in a step of its own; until then the other goroutines run on.   *)
(*                                                                         *)
(* Every goroutine gets the same slice, so changesets[i].MatchFound is     *)
(* read (lines 83, 122) and written (line 106) without synchronisation.    *)
(* Each such read and write is a step of its own: a racing read returns    *)
(* the old or the new value, as the interleaving has it.                   *)
(***************************************************************************)
EXTENDS Integers, Sequences, FiniteSets, TLC

VARIABLES
    opts,        \* the global option struct (lines 38-59)
    args,        \* the file list: one path per task (line 346-348)
    fs,          \* the file system: path -> [content, mtime]
    changesets,  \* the backing array of main's slice (line 343)
    mainPc,      \* position of main: "setup", "dispatch", "report"
    next,        \* main's loop index over args (line 399)
    wg,          \* the sync.WaitGroup counter (line 396)
    closer,      \* the goroutine of lines 411-414: "none", "wait", "done"
    closed,      \* close(results) has happened
    printed,     \* the results main has received from the channel (418)
    exit,        \* "running", or how the process ended: "0", "1", "panic"
    task         \* task[k]: the goroutine started for args[k]

vars == <<opts, args, fs, changesets, mainPc, next, wg, closer, closed,
          printed, exit, task>>

-----------------------------------------------------------------------------
(* Bounds of the explored inputs. *)

MaxFiles == 2
MaxChangesets == 2
MaxLines == 2
MaxTaskLines == 1
MaxLineLen == 3

NL == "\n"

-----------------------------------------------------------------------------
(* Text helpers. *)

SeqsFromTo(S, lo, hi) == UNION {[1..n -> S] : n \in lo..hi}

Drop(s, n) == SubSeq(s, n + 1, Len(s))

\* regexp.MatchString for a literal (QuoteMeta) pattern: it occurs in s
MatchString(pattern, s) ==
    \E k \in 0..(Len(s) - Len(pattern)) :
        SubSeq(s, k + 1, k + Len(pattern)) = pattern

\* regexp.ReplaceAllLiteralString for a non-empty literal pattern: the
\* leftmost non-overlapping occurrences are replaced, the rest is copied
RECURSIVE ReplaceAllLiteralString(_, _, _)
ReplaceAllLiteralString(pattern, s, repl) ==
    IF Len(s) < Len(pattern) \/ Len(pattern) = 0 THEN s
    ELSE IF SubSeq(s, 1, Len(pattern)) = pattern
         THEN repl \o ReplaceAllLiteralString(pattern, Drop(s, Len(pattern)), repl)
         ELSE <<Head(s)>> \o ReplaceAllLiteralString(pattern, Tail(s), repl)

\* Readln (lines 143-153) on the unread rest of a file: bufio's ReadLine
\* returns the bytes up to the next "\n" without it; at the end of the data
\* an unterminated last line is returned once, then io.EOF
RECURSIVE LineEnd(_, _)
LineEnd(r, k) ==
    IF k > Len(r) THEN Len(r)
    ELSE IF r[k] = NL THEN k - 1 ELSE LineEnd(r, k + 1)

Readln(r) ==
    IF r = <<>> THEN [line |-> <<>>, rest |-> <<>>, err |-> TRUE]
    ELSE LET e == LineEnd(r, 1)
         IN  [line |-> SubSeq(r, 1, e), rest |-> Drop(r, e + 1), err |-> FALSE]

\* the lines of a text, as Readln delivers them
RECURSIVE ReadAll(_)
ReadAll(r) ==
    IF Readln(r).err THEN <<>> ELSE <<Readln(r).line>> \o ReadAll(Readln(r).rest)

\* buildSearchTerm (lines 205-236) with --regex, --ignore-case, --regex-posix
\* off: the compiled expression is QuoteMeta(term), a literal matcher
buildSearchTerm(term) == [literal |-> term]

\* a searchMatch that finds a match in every line
searchMatchAny(content, changeset) == TRUE

\* searchMatch (lines 157-163)
searchMatch(content, changeset) ==
    MatchString(changeset.Search.literal, content)

\* a replaceText that replaces the first match only
replaceTextFirstOnly(content, changeset) ==
    LET p == changeset.Search.literal
        at == {k \in 1..(Len(content) - Len(p) + 1) :
                 SubSeq(content, k, k + Len(p) - 1) = p}
    IN  IF at = {} THEN content
        ELSE LET k == CHOOSE x \in at : \A y \in at : x <= y
             IN  SubSeq(content, 1, k - 1) \o changeset.Replace
                    \o Drop(content, k + Len(p) - 1)

\* replaceText (lines 166-173), --regex-backrefs off
replaceText(content, changeset) ==
    ReplaceAllLiteralString(changeset.Search.literal, content, changeset.Replace)

-----------------------------------------------------------------------------
(* Variants of evalChangeset, each with one slip. *)

\* writeBufferToFile = true set outside the test of the match
evalChangesetMarksAlways(line, changeset, o) ==
    IF o.Once /\ changeset.MatchFound
    THEN IF o.OnceRemoveMatch /\ searchMatch(line, changeset)
         THEN [line |-> line, found |-> FALSE, drop |-> TRUE, change |-> TRUE]
         ELSE [line |-> line, found |-> FALSE, drop |-> FALSE, change |-> FALSE]
    ELSE IF searchMatch(line, changeset)
         THEN [line |-> IF o.ModeIsReplaceLine \/ o.ModeIsLineInFile
                          THEN changeset.Replace
                          ELSE replaceText(line, changeset),
               found |-> TRUE, drop |-> FALSE, change |-> TRUE]
         ELSE [line |-> line, found |-> FALSE, drop |-> FALSE, change |-> TRUE]

\* the --once test of line 86 left out
evalChangesetIgnoresOnce(line, changeset, o) ==
    IF searchMatch(line, changeset)
    THEN [line |-> IF o.ModeIsReplaceLine \/ o.ModeIsLineInFile
                     THEN changeset.Replace
                     ELSE replaceText(line, changeset),
          found |-> TRUE, drop |-> FALSE, change |-> TRUE]
    ELSE [line |-> line, found |-> FALSE, drop |-> FALSE, change |-> FALSE]

\* the --once-remove-match test of line 88 left out
evalChangesetKeepsMatch(line, changeset, o) ==
    IF o.Once /\ changeset.MatchFound
    THEN [line |-> line, found |-> FALSE, drop |-> FALSE, change |-> FALSE]
    ELSE IF searchMatch(line, changeset)
         THEN [line |-> IF o.ModeIsReplaceLine \/ o.ModeIsLineInFile
                          THEN changeset.Replace
                          ELSE replaceText(line, changeset),
               found |-> TRUE, drop |-> FALSE, change |-> TRUE]
         ELSE [line |-> line, found |-> FALSE, drop |-> FALSE, change |-> FALSE]

\* the mode test of line 98 left out: always the substring replacement
evalChangesetSubstringOnly(line, changeset, o) ==
    IF o.Once /\ changeset.MatchFound
    THEN IF o.OnceRemoveMatch /\ searchMatch(line, changeset)
         THEN [line |-> line, found |-> FALSE, drop |-> TRUE, change |-> TRUE]
         ELSE [line |-> line, found |-> FALSE, drop |-> FALSE, change |-> FALSE]
    ELSE IF searchMatch(line, changeset)
         THEN [line |-> replaceText(line, changeset),
               found |-> TRUE, drop |-> FALSE, change |-> TRUE]
         ELSE [line |-> line, found |-> FALSE, drop |-> FALSE, change |-> FALSE]

\* a loop body that puts the replacement text also on a line without a match
evalChangesetRewritesUnmatched(line, changeset, o) ==
    IF o.Once /\ changeset.MatchFound
    THEN IF o.OnceRemoveMatch /\ searchMatch(line, changeset)
         THEN [line |-> line, found |-> FALSE, drop |-> TRUE, change |-> TRUE]
         ELSE [line |-> line, found |-> FALSE, drop |-> FALSE, change |-> FALSE]
    ELSE IF searchMatch(line, changeset)
         THEN [line |-> IF o.ModeIsReplaceLine \/ o.ModeIsLineInFile
                          THEN changeset.Replace
                          ELSE replaceText(line, changeset),
               found |-> TRUE, drop |-> FALSE, change |-> TRUE]
         ELSE [line |-> changeset.Replace, found |-> FALSE, drop |-> FALSE,
               change |-> FALSE]

-----------------------------------------------------------------------------
(* One pass of the changeset loop body (lines 83-109) for one changeset,   *)
(* given the local copy of the changeset taken at line 83.                 *)
(*   line:   the line after this changeset                                 *)
(*   found:  changesets[i].MatchFound = true is executed (line 106)        *)
(*   drop:   writeLine = false and break (lines 90-92)                     *)
(*   change: writeBufferToFile = true (lines 91, 107)                      *)
evalChangeset(line, changeset, o) ==
    IF o.Once /\ changeset.MatchFound
    THEN IF o.OnceRemoveMatch /\ searchMatch(line, changeset)
         THEN [line |-> line, found |-> FALSE, drop |-> TRUE, change |-> TRUE]
         ELSE [line |-> line, found |-> FALSE, drop |-> FALSE, change |-> FALSE]
    ELSE IF searchMatch(line, changeset)
         THEN [line |-> IF o.ModeIsReplaceLine \/ o.ModeIsLineInFile
                          THEN changeset.Replace
                          ELSE replaceText(line, changeset),
               found |-> TRUE, drop |-> FALSE, change |-> TRUE]
         ELSE [line |-> line, found |-> FALSE, drop |-> FALSE, change |-> FALSE]

-----------------------------------------------------------------------------
(* Inputs. *)

Terms == {<<"a">>, <<"b">>}
Lines == {<<"a">>, <<"b">>, <<"a", "b">>}

\* the text of a file holding the given lines, each ended by "\n"
RECURSIVE Join(_)
Join(ls) == IF ls = <<>> THEN <<>> ELSE Head(ls) \o <<NL>> \o Join(Tail(ls))

\* files of at most n lines
FileTexts(ls, n) == {Join(f) : f \in SeqsFromTo(ls, 0, n)}

\* files whose last line lacks the final "\n"
Unterminated(ls) == ls

Modes == {"replace", "line", "lineinfile"}

\* the options as parsed from the command line (line 346): go-flags fills the
\* tagged fields; search and replace are required, so each has one term or more.
\* Path is the set of files under the --path directory, empty without --path
ParsedOptsFrom(nFiles, searches, replaces, dirs, regex) ==
    [Mode : Modes,
     ModeIsReplaceMatch : {FALSE}, ModeIsReplaceLine : {FALSE},
     ModeIsLineInFile : {FALSE},
     Search : searches,
     Replace : replaces,
     Once : BOOLEAN, OnceRemoveMatch : BOOLEAN,
     Regex : regex, Path : dirs,
     IgnoreEmpty : IF nFiles = 0 THEN BOOLEAN ELSE {FALSE},
     Verbose : BOOLEAN, DryRun : BOOLEAN]

ParsedOpts(nFiles, repls) ==
    ParsedOptsFrom(nFiles, SeqsFromTo(Terms, 1, MaxChangesets),
                   SeqsFromTo(repls, 1, MaxChangesets), {{}}, {FALSE})

NoChangeset == [Search |-> [literal |-> <<>>], Replace |-> <<>>, MatchFound |-> FALSE]
NoOutput == [kind |-> "none", path |-> 0, text |-> <<>>]

\* the goroutines main may start, one per element of args
Tasks == 1..MaxFiles

\* a goroutine of lines 403-407 before the go statement has run
NewTask(path) ==
    [pc |-> "idle", File |-> path,
     rest |-> <<>>, line |-> <<>>, i |-> 1, changeset |-> NoChangeset,
     writeBufferToFile |-> FALSE, buffer |-> <<>>,
     output |-> NoOutput, status |-> TRUE,
     \* history of the run, for the properties
     input |-> <<>>, lineNo |-> 0, hits |-> {}, seen |-> {}, dropped |-> {},
     mine |-> {}, foreign |-> FALSE]

\* the state when main starts: n files on disk, all of them named as
\* positional arguments, with options from options[n]
InitOf(files, texts, options) ==
    /\ \E n \in files :
        /\ args = [k \in 1..n |-> k]
        /\ fs \in [1..n -> [content : texts, mtime : {0}]]
        /\ opts \in options[n]
    /\ task = [k \in Tasks |-> NewTask(0)]
    /\ changesets = <<>>
    /\ mainPc = "setup"
    /\ next = 1
    /\ wg = 0
    /\ closer = "none"
    /\ closed = FALSE
    /\ printed = <<>>
    /\ exit = "running"

InitWith(files, texts, repls) ==
    InitOf(files, texts, [n \in files |-> ParsedOpts(n, repls)])

\* several files at once, short files
Init == InitWith(0..MaxFiles, FileTexts(Terms, MaxTaskLines), {<<"b">>})

\* at most one file, longer files
InitEngine ==
    InitWith(0..1, FileTexts(Lines, MaxLines) \cup Unterminated(Lines), Terms)

\* one file of one line, one changeset, longer lines and terms
Letters == {"a", "b"}
LongLines == SeqsFromTo(Letters, 0, MaxLineLen)
LongTerms == SeqsFromTo(Letters, 1, 2)
ShortTexts == {<<>>, <<"b">>, <<"b", "a">>}

TextOpts(n) ==
    ParsedOptsFrom(n, [1..1 -> LongTerms], [1..1 -> ShortTexts], {{}}, {FALSE})

InitText == InitOf(1..1, FileTexts(LongLines, 1), [n \in 1..1 |-> TextOpts(n)])

-----------------------------------------------------------------------------
(* main, lines 342-430. *)

Running == exit = "running"

\* a handleSpecialCliOptions without lines 334-337
handleSpecialCliOptionsOnceAsGiven(o) ==
    [o EXCEPT !.ModeIsReplaceMatch = (o.Mode = "replace"),
              !.ModeIsReplaceLine = (o.Mode = "line"),
              !.ModeIsLineInFile = (o.Mode = "lineinfile")]

\* handleSpecialCliOptions (lines 297-340) with --version and --help unset,
\* on the options: the mode switch (311-324) and the implied --once (334-337)
handleSpecialCliOptions(o) ==
    [o EXCEPT !.ModeIsReplaceMatch = (o.Mode = "replace"),
              !.ModeIsReplaceLine = (o.Mode = "line"),
              !.ModeIsLineInFile = (o.Mode = "lineinfile"),
              !.Once = (o.Once \/ o.OnceRemoveMatch)]

\* lines 369-376
buildChangesets(o) ==
    [i \in 1..Len(o.Search) |->
        [Search |-> buildSearchTerm(o.Search[i]), Replace |-> o.Replace[i],
         MatchFound |-> FALSE]]

\* searchFilesInPath (lines 250-289) without name filters: filepath.Walk
\* visits the files of the directory in lexical order
RECURSIVE searchFilesInPath(_)
searchFilesInPath(dir) ==
    IF dir = {} THEN <<>>
    ELSE LET f == CHOOSE x \in dir : \A y \in dir : x <= y
         IN  <<f>> \o searchFilesInPath(dir \ {f})

\* handleSpecialCliOptions on the file list (lines 326-331, 339): the files
\* found under --path are appended to the positional arguments
discoverFiles(o, positional) == positional \o searchFilesInPath(o.Path)

\* regexp.MustCompile (lines 230, 232) returns for a term whose parentheses
\* balance and panics otherwise; without --regex the term is quoted first
RECURSIVE Balanced(_, _)
Balanced(term, depth) ==
    IF depth < 0 THEN FALSE
    ELSE IF term = <<>> THEN depth = 0
    ELSE Balanced(Tail(term), IF Head(term) = "(" THEN depth + 1
                              ELSE IF Head(term) = ")" THEN depth - 1 ELSE depth)

compiles(term, o) == ~o.Regex \/ Balanced(term, 0)

\* the changesets built by the loop of lines 369-376 when it ends or panics
builtChangesets(o) ==
    LET bad == {i \in DOMAIN o.Search : ~compiles(o.Search[i], o)}
    IN  IF bad = {} THEN buildChangesets(o)
        ELSE SubSeq(buildChangesets(o), 1,
                    (CHOOSE i \in bad : \A j \in bad : i <= j) - 1)

\* a main without the test of line 379
setupOutcomeNoEmptyCheck(o, files) ==
    IF Len(o.Search) # Len(o.Replace) THEN "1"
    ELSE IF \E i \in DOMAIN o.Search : ~compiles(o.Search[i], o) THEN "panic"
    ELSE "dispatch"

\* how lines 358-392 end: os.Exit(1) at 365 or 390, a panic in
\* buildSearchTerm, os.Exit(0) at 383, or on to the dispatch loop
setupOutcome(o, files) ==
    IF Len(o.Search) # Len(o.Replace) THEN "1"
    ELSE IF \E i \in DOMAIN o.Search : ~compiles(o.Search[i], o) THEN "panic"
    ELSE IF Len(files) = 0 THEN (IF o.IgnoreEmpty THEN "0" ELSE "1")
    ELSE "dispatch"

\* lines 346-392: the special options, the length check, the changesets, the
\* check for an empty file list
Setup ==
    /\ Running /\ mainPc = "setup"
    /\ opts' = handleSpecialCliOptions(opts)
    /\ args' = discoverFiles(opts, args)
    /\ LET outcome == setupOutcome(opts', args')
       IN  /\ changesets' = IF Len(opts.Search) # Len(opts.Replace) THEN changesets
                            ELSE builtChangesets(opts')
           /\ IF outcome = "dispatch"
              THEN mainPc' = "dispatch" /\ UNCHANGED exit
              ELSE exit' = outcome /\ UNCHANGED mainPc
    /\ UNCHANGED <<fs, next, wg, closer, closed, printed, task>>

\* lines 399-408, one iteration: wg.Add(1) and the go statement
Dispatch ==
    /\ Running /\ mainPc = "dispatch" /\ next <= Len(args)
    /\ wg' = wg + 1
    /\ task' = [task EXCEPT ![next].pc = "open", ![next].File = args[next]]
    /\ next' = next + 1
    /\ UNCHANGED <<opts, args, fs, changesets, mainPc, closer, closed, printed, exit>>

\* lines 411-414: the go statement of the closing goroutine
StartCloser ==
    /\ Running /\ mainPc = "dispatch" /\ next > Len(args)
    /\ closer' = "wait"
    /\ mainPc' = "report"
    /\ UNCHANGED <<opts, args, fs, changesets, next, wg, closed, printed, exit, task>>

\* a closing goroutine that does not wait for the counter
CloseResultsNoWait ==
    /\ Running /\ closer = "wait"
    /\ closed' = TRUE
    /\ closer' = "done"
    /\ UNCHANGED <<opts, args, fs, changesets, mainPc, next, wg, printed, exit, task>>

\* lines 412-413: wg.Wait() returns when the counter is zero, then close
CloseResults ==
    /\ Running /\ closer = "wait" /\ wg = 0
    /\ closed' = TRUE
    /\ closer' = "done"
    /\ UNCHANGED <<opts, args, fs, changesets, mainPc, next, wg, printed, exit, task>>

\* lines 417 and 430 without --verbose: os.Exit(0) right after the go statements
ExitQuiet ==
    /\ Running /\ mainPc = "report" /\ ~opts.Verbose
    /\ exit' = "0"
    /\ UNCHANGED <<opts, args, fs, changesets, mainPc, next, wg, closer, closed,
                   printed, task>>

\* lines 405 and 418: the channel is unbuffered, so the send of task k and
\* the receive of main's range loop happen together
SendResult(k) ==
    /\ Running /\ mainPc = "report" /\ opts.Verbose /\ ~closed
    /\ task[k].pc = "send"
    /\ printed' = Append(printed,
          [File |-> task[k].File, Output |-> task[k].output, Status |-> task[k].status])
    /\ task' = [task EXCEPT ![k].pc = "sent"]
    /\ UNCHANGED <<opts, args, fs, changesets, mainPc, next, wg, closer, closed, exit>>

\* line 406
WgDone(k) ==
    /\ Running /\ task[k].pc = "sent"
    /\ wg' = wg - 1
    /\ task' = [task EXCEPT ![k].pc = "done"]
    /\ UNCHANGED <<opts, args, fs, changesets, mainPc, next, closer, closed,
                   printed, exit>>

\* lines 418 and 430: the range loop ends on the closed channel, os.Exit(0)
RangeEnd ==
    /\ Running /\ mainPc = "report" /\ opts.Verbose /\ closed
    /\ exit' = "0"
    /\ UNCHANGED <<opts, args, fs, changesets, mainPc, next, wg, closer, closed,
                   printed, task>>

-----------------------------------------------------------------------------
(* applyChangesetsToFile, lines 64-137, run by task k. *)

\* lines 112-117 and the loop test of line 79: read the next line; at the end
\* of the file go on to lines 119-128 or, outside lineinfile mode, to line 130
readNext(tk) ==
    LET rd == Readln(tk.rest)
    IN  IF rd.err
        THEN [tk EXCEPT !.pc = IF opts.ModeIsLineInFile THEN "ensure" ELSE "finalize",
                        !.line = <<>>, !.rest = <<>>, !.i = 1]
        ELSE [tk EXCEPT !.pc = "copy", !.line = rd.line, !.rest = rd.rest,
                        !.i = 1, !.lineNo = @ + 1]

\* lines 69-78: os.Open succeeds; the reader gets the file's text
OpenFile(k) ==
    /\ Running /\ task[k].pc = "open"
    /\ task' = [task EXCEPT ![k] =
          readNext([task[k] EXCEPT !.rest = fs[task[k].File].content,
                                   !.input = fs[task[k].File].content])]
    /\ UNCHANGED <<opts, args, fs, changesets, mainPc, next, wg, closer, closed,
                   printed, exit>>

\* lines 70-72: os.Open fails and the goroutine panics
OpenFail(k) ==
    /\ Running /\ task[k].pc = "open"
    /\ task' = [task EXCEPT ![k].pc = "panic"]
    /\ UNCHANGED <<opts, args, fs, changesets, mainPc, next, wg, closer, closed,
                   printed, exit>>

\* lines 71 and 184: the panic of a goroutine, which nothing recovers, ends
\* the process; until it has, the other goroutines go on
PanicExit(k) ==
    /\ Running /\ task[k].pc = "panic"
    /\ exit' = "panic"
    /\ UNCHANGED <<opts, args, fs, changesets, mainPc, next, wg, closer, closed,
                   printed, task>>

\* line 83: changeset := changesets[i], a copy of the shared element
CopyChangeset(k) ==
    /\ Running /\ task[k].pc = "copy"
    /\ task' = [task EXCEPT ![k].pc = "eval",
                            ![k].changeset = changesets[task[k].i],
                            ![k].foreign = @ \/ (changesets[task[k].i].MatchFound
                                                 /\ task[k].i \notin task[k].mine)]
    /\ UNCHANGED <<opts, args, fs, changesets, mainPc, next, wg, closer, closed,
                   printed, exit>>

\* a loop body that looks for its match in the line as read from the file
EvalChangesetOnOriginal(k) ==
    /\ Running /\ task[k].pc = "eval"
    /\ LET tk == task[k]
           asRead == evalChangeset(ReadAll(tk.input)[tk.lineNo], tk.changeset, opts)
           r == [asRead EXCEPT !.line =
                    IF ~asRead.found THEN tk.line
                    ELSE IF opts.ModeIsReplaceLine \/ opts.ModeIsLineInFile
                         THEN tk.changeset.Replace
                         ELSE replaceText(tk.line, tk.changeset)]
           t1 == [tk EXCEPT
                    !.changeset = NoChangeset,
                    !.line = r.line,
                    !.writeBufferToFile = @ \/ r.change,
                    !.seen = IF searchMatch(tk.line, tk.changeset)
                             THEN @ \cup {<<tk.i, tk.lineNo>>} ELSE @,
                    !.hits = IF r.found THEN @ \cup {<<tk.i, tk.lineNo>>} ELSE @,
                    !.mine = IF r.found THEN @ \cup {tk.i} ELSE @,
                    !.dropped = IF r.drop THEN @ \cup {tk.lineNo} ELSE @]
       IN  /\ changesets' = IF r.found
                            THEN [changesets EXCEPT ![tk.i].MatchFound = TRUE]
                            ELSE changesets
           /\ task' = [task EXCEPT ![k] =
                 IF r.drop THEN readNext(t1)
                 ELSE IF tk.i = Len(changesets)
                      THEN readNext([t1 EXCEPT !.buffer = @ \o r.line \o <<NL>>])
                      ELSE [t1 EXCEPT !.pc = "copy", !.i = tk.i + 1]]
    /\ UNCHANGED <<opts, args, fs, mainPc, next, wg, closer, closed, printed, exit>>

\* lines 85-114: the body for changeset i on the local copy; after the last
\* changeset or a break, the line is written to the buffer unless dropped
EvalChangeset(k) ==
    /\ Running /\ task[k].pc = "eval"
    /\ LET tk == task[k]
           r == evalChangeset(tk.line, tk.changeset, opts)
           t1 == [tk EXCEPT
                    !.changeset = NoChangeset,
                    !.line = r.line,
                    !.writeBufferToFile = @ \/ r.change,
                    !.seen = IF searchMatch(tk.line, tk.changeset)
                             THEN @ \cup {<<tk.i, tk.lineNo>>} ELSE @,
                    !.hits = IF r.found THEN @ \cup {<<tk.i, tk.lineNo>>} ELSE @,
                    !.mine = IF r.found THEN @ \cup {tk.i} ELSE @,
                    !.dropped = IF r.drop THEN @ \cup {tk.lineNo} ELSE @]
       IN  /\ changesets' = IF r.found
                            THEN [changesets EXCEPT ![tk.i].MatchFound = TRUE]
                            ELSE changesets
           /\ task' = [task EXCEPT ![k] =
                 IF r.drop THEN readNext(t1)
                 ELSE IF tk.i = Len(changesets)
                      THEN readNext([t1 EXCEPT !.buffer = @ \o r.line \o <<NL>>])
                      ELSE [t1 EXCEPT !.pc = "copy", !.i = tk.i + 1]]
    /\ UNCHANGED <<opts, args, fs, mainPc, next, wg, closer, closed, printed, exit>>

\* an iteration of lines 121-127 that appends nothing
EnsureLineNever(k) ==
    /\ Running /\ task[k].pc = "ensure"
    /\ LET tk == task[k]
           changeset == changesets[tk.i]
           t1 == IF ~changeset.MatchFound
                 THEN tk
                 ELSE [tk EXCEPT !.foreign = @ \/ tk.i \notin tk.mine]
       IN  task' = [task EXCEPT ![k] =
                 IF tk.i = Len(changesets)
                 THEN [t1 EXCEPT !.pc = "finalize", !.i = 1]
                 ELSE [t1 EXCEPT !.i = tk.i + 1]]
    /\ UNCHANGED <<opts, args, fs, changesets, mainPc, next, wg, closer, closed,
                   printed, exit>>

\* lines 121-127, one iteration: append the replacement of a changeset whose
\* shared MatchFound is still false
EnsureLine(k) ==
    /\ Running /\ task[k].pc = "ensure"
    /\ LET tk == task[k]
           changeset == changesets[tk.i]
           t1 == IF ~changeset.MatchFound
                 THEN [tk EXCEPT !.buffer = @ \o changeset.Replace \o <<NL>>,
                                 !.writeBufferToFile = TRUE]
                 ELSE [tk EXCEPT !.foreign = @ \/ tk.i \notin tk.mine]
       IN  task' = [task EXCEPT ![k] =
                 IF tk.i = Len(changesets)
                 THEN [t1 EXCEPT !.pc = "finalize", !.i = 1]
                 ELSE [t1 EXCEPT !.i = tk.i + 1]]
    /\ UNCHANGED <<opts, args, fs, changesets, mainPc, next, wg, closer, closed,
                   printed, exit>>

\* a writeContentToFile that writes the file with --dry-run too
writeContentToFileAlways(path, content) ==
    [fs |-> [fs EXCEPT ![path] = [content |-> content, mtime |-> @.mtime + 1]],
     output |-> IF opts.DryRun
                THEN [kind |-> "content", path |-> path, text |-> content]
                ELSE [kind |-> "replaced", path |-> path, text |-> <<>>]]

\* writeContentToFile (lines 176-189) without a write error
writeContentToFile(path, content) ==
    IF opts.DryRun
    THEN [fs |-> fs,
          output |-> [kind |-> "content", path |-> path, text |-> content]]
    ELSE [fs |-> [fs EXCEPT ![path] = [content |-> content, mtime |-> @.mtime + 1]],
          output |-> [kind |-> "replaced", path |-> path, text |-> <<>>]]

\* lines 130-136
Finalize(k) ==
    /\ Running /\ task[k].pc = "finalize"
    /\ LET tk == task[k]
           w == writeContentToFile(tk.File, tk.buffer)
       IN  IF tk.writeBufferToFile
           THEN /\ fs' = w.fs
                /\ task' = [task EXCEPT ![k].pc = "send", ![k].output = w.output,
                                        ![k].status = TRUE]
           ELSE /\ fs' = fs
                /\ task' = [task EXCEPT ![k].pc = "send",
                               ![k].output = [kind |-> "nomatch", path |-> tk.File,
                                              text |-> <<>>]]
    /\ UNCHANGED <<opts, args, changesets, mainPc, next, wg, closer, closed,
                   printed, exit>>

\* lines 182-185: ioutil.WriteFile fails and the goroutine panics
WriteFail(k) ==
    /\ Running /\ task[k].pc = "finalize"
    /\ task[k].writeBufferToFile /\ ~opts.DryRun
    /\ task' = [task EXCEPT ![k].pc = "panic"]
    /\ UNCHANGED <<opts, args, fs, changesets, mainPc, next, wg, closer, closed,
                   printed, exit>>

-----------------------------------------------------------------------------

Next ==
    \/ Setup
    \/ Dispatch
    \/ StartCloser
    \/ CloseResults
    \/ ExitQuiet
    \/ RangeEnd
    \/ \E k \in Tasks :
        \/ OpenFile(k)
        \/ OpenFail(k)
        \/ CopyChangeset(k)
        \/ EvalChangeset(k)
        \/ EnsureLine(k)
        \/ Finalize(k)
        \/ WriteFail(k)
        \/ PanicExit(k)
        \/ SendResult(k)
        \/ WgDone(k)

Spec == Init /\ [][Next]_vars

SpecEngine == InitEngine /\ [][Next]_vars

SpecText == InitText /\ [][Next]_vars

-----------------------------------------------------------------------------
(* applyChangesetsToFile run on its own, from start to end, on changesets   *)
(* that no other goroutine touches.                                         *)

\* lines 82-110 for one line, from changeset i on
RECURSIVE changesetLoop(_, _, _, _)
changesetLoop(line, cs, i, o) ==
    IF i > Len(cs)
    THEN [line |-> line, cs |-> cs, drop |-> FALSE, change |-> FALSE]
    ELSE LET r == evalChangeset(line, cs[i], o)
             cs1 == IF r.found THEN [cs EXCEPT ![i].MatchFound = TRUE] ELSE cs
         IN  IF r.drop
             THEN [line |-> line, cs |-> cs1, drop |-> TRUE, change |-> TRUE]
             ELSE LET rec == changesetLoop(r.line, cs1, i + 1, o)
                  IN  [rec EXCEPT !.change = @ \/ r.change]

\* lines 121-127 from changeset i on
RECURSIVE ensureLoop(_, _, _)
ensureLoop(cs, i, st) ==
    IF i > Len(cs) THEN st
    ELSE ensureLoop(cs, i + 1,
            IF ~cs[i].MatchFound
            THEN [buffer |-> st.buffer \o cs[i].Replace \o <<NL>>,
                  writeBufferToFile |-> TRUE]
            ELSE st)

\* lines 78-128 from the unread rest of the file on
RECURSIVE lineLoop(_, _, _, _)
lineLoop(rest, cs, o, st) ==
    LET rd == Readln(rest)
    IN  IF rd.err
        THEN IF o.ModeIsLineInFile THEN ensureLoop(cs, 1, st) ELSE st
        ELSE LET r == changesetLoop(rd.line, cs, 1, o)
             IN  lineLoop(rd.rest, r.cs, o,
                    [buffer |-> IF r.drop THEN st.buffer
                                ELSE st.buffer \o r.line \o <<NL>>,
                     writeBufferToFile |-> st.writeBufferToFile \/ r.change])

\* the buffer and the changed flag at line 130 for a file read alone
applyAlone(content, o) ==
    lineLoop(content, buildChangesets(o), o,
             [buffer |-> <<>>, writeBufferToFile |-> FALSE])

\* the state when main starts with any command line: files 1..n on disk, a
\* list of positional arguments naming any of them any number of times, and
\* --path naming a directory that holds any of them; one changeset
InitPaths ==
    /\ \E n \in 1..MaxFiles :
        /\ fs \in [1..n -> [content : FileTexts(Terms, MaxTaskLines), mtime : {0}]]
        /\ \E positional \in SeqsFromTo(1..n, 0, MaxFiles), dir \in SUBSET (1..n) :
            /\ Len(positional) + Cardinality(dir) <= MaxFiles
            /\ args = positional
            /\ opts \in ParsedOptsFrom(Len(positional) + Cardinality(dir),
                                       [1..1 -> Terms], [1..1 -> {<<"b">>}],
                                       {dir}, {FALSE})
    /\ task = [k \in Tasks |-> NewTask(0)]
    /\ changesets = <<>>
    /\ mainPc = "setup"
    /\ next = 1
    /\ wg = 0
    /\ closer = "none"
    /\ closed = FALSE
    /\ printed = <<>>
    /\ exit = "running"

SpecPaths == InitPaths /\ [][Next]_vars

\* the state when main starts with a command line that may be in error: any
\* numbers of search and replace terms, --regex with a term that does not
\* compile, no file at all, --ignore-empty; the file, when there is one, is
\* named as argument or found under --path
InitSetup ==
    /\ \E n \in 0..1 :
        /\ fs \in [1..n -> [content : FileTexts(Terms, MaxTaskLines), mtime : {0}]]
        /\ \E positional \in SeqsFromTo(1..n, 0, 1), dir \in SUBSET (1..n) :
            /\ Len(positional) + Cardinality(dir) <= 1
            /\ args = positional
            /\ opts \in ParsedOptsFrom(0, SeqsFromTo(Terms \cup {<<"(">>}, 1, MaxChangesets),
                                       SeqsFromTo({<<"b">>}, 1, MaxChangesets),
                                       {dir}, BOOLEAN)
    /\ task = [k \in Tasks |-> NewTask(0)]
    /\ changesets = <<>>
    /\ mainPc = "setup"
    /\ next = 1
    /\ wg = 0
    /\ closer = "none"
    /\ closed = FALSE
    /\ printed = <<>>
    /\ exit = "running"

SpecSetup == InitSetup /\ [][Next]_vars

\* the state when main starts for the second time with the same command
\* line: the one file is as the first run, alone on it, has left it (lines
\* 130-136: written when the changed flag was set and --dry-run was not)
InitRerun ==
    /\ \E text \in FileTexts(LongLines, 1), o \in TextOpts(1) :
        LET first == applyAlone(text, handleSpecialCliOptions(o))
            wrote == first.writeBufferToFile /\ ~o.DryRun
        IN  /\ opts = o
            /\ fs = [p \in 1..1 |->
                        IF wrote THEN [content |-> first.buffer, mtime |-> 1]
                        ELSE [content |-> text, mtime |-> 0]]
    /\ args = <<1>>
    /\ task = [k \in Tasks |-> NewTask(0)]
    /\ changesets = <<>>
    /\ mainPc = "setup"
    /\ next = 1
    /\ wg = 0
    /\ closer = "none"
    /\ closed = FALSE
    /\ printed = <<>>
    /\ exit = "running"

SpecRerun == InitRerun /\ [][Next]_vars

-----------------------------------------------------------------------------
(* Properties. *)

Dispatched == 1..(next - 1)
Finished(k) == task[k].pc \in {"send", "sent", "done"}

\* C1: no MatchFound flag is shared between file tasks: a task that has not
\* started yet finds every flag false, and no task ever reads a flag as true
\* that it did not set itself.
C1_MatchFoundNotShared ==
    \A k \in Dispatched :
        /\ task[k].pc = "open" => \A i \in DOMAIN changesets : ~changesets[i].MatchFound
        /\ ~task[k].foreign

\* C2: whatever the interleaving, a finished task has the buffer, the changed
\* flag, the report and the file content that processing its file alone with
\* fresh flags gives.
C2_OutcomeAsAlone ==
    \A k \in Dispatched :
        Finished(k) =>
            LET alone == applyAlone(task[k].input, opts)
            IN  /\ task[k].writeBufferToFile = alone.writeBufferToFile
                /\ task[k].buffer = alone.buffer
                /\ (task[k].output.kind = "nomatch") = ~alone.writeBufferToFile
                /\ fs[task[k].File].content =
                      IF alone.writeBufferToFile /\ ~opts.DryRun
                      THEN alone.buffer ELSE task[k].input

\* C3: when the run has exited with status 0, every dispatched task has run
\* to completion and handed over its result.
C3_ExitAfterAllTasks ==
    exit = "0" => \A k \in 1..Len(args) : task[k].pc = "done"


\* the number of results task k has sent so far
Sent(k) == Cardinality({j \in DOMAIN printed : printed[j].File = task[k].File})

\* C4: a task has sent no result before its send and exactly one after it;
\* the channel is closed only when every file has been dispatched and every
\* task has sent its result and is done; nothing is sent once it is closed.
C4_OneResultThenClose ==
    /\ [](/\ \A k \in 1..Len(args) :
               Sent(k) = IF task[k].pc \in {"sent", "done"} THEN 1 ELSE 0
          /\ closed => /\ next > Len(args)
                       /\ \A k \in 1..Len(args) : task[k].pc = "done" /\ Sent(k) = 1)
    /\ [][closed => closed' /\ printed' = printed]_vars

C4_Witness ==
    /\ closed /\ mainPc = "report" /\ exit = "running"
    /\ Len(args) = 2 /\ Len(printed) = 2


-----------------------------------------------------------------------------
(* The text a property expects, stated on the input lines. *)

\* pattern p occurs somewhere in text s
Occurs(p, s) == \E a \in 1..(Len(s) + 1) : \E b \in 0..Len(s) : SubSeq(s, a, b) = p

\* no line of the text holds any search term
NoLineMatches(text) ==
    \A n \in DOMAIN ReadAll(text) : \A i \in DOMAIN opts.Search :
        ~Occurs(opts.Search[i], ReadAll(text)[n])

\* the numbers of the lines of ls that hold p
Matching(p, ls) == {n \in DOMAIN ls : Occurs(p, ls[n])}

Least(S) == CHOOSE n \in S : \A m \in S : n <= m

WholeLine == opts.Mode \in {"line", "lineinfile"}

\* line l rewritten by the one changeset p -> r
Rewritten(p, r, l) == IF WholeLine THEN r ELSE ReplaceAllLiteralString(p, l, r)

\* the lines of ls with the given line numbers left out
RECURSIVE Without(_, _, _)
Without(ls, out, n) ==
    IF n > Len(ls) THEN <<>>
    ELSE (IF n \in out THEN <<>> ELSE <<ls[n]>>) \o Without(ls, out, n + 1)

\* C5 as claimed, for every mode: a file without a matching line is not
\* marked changed, not written, keeps its content, and is reported no match.
C5_NoMatchNoChangeAnyMode ==
    \A k \in Dispatched :
        (Finished(k) /\ NoLineMatches(task[k].input)) =>
            /\ ~task[k].writeBufferToFile
            /\ fs[task[k].File] = [content |-> task[k].input, mtime |-> 0]
            /\ task[k].output.kind = "nomatch"

\* C5 amended: in replace and line mode, a file without a matching line is
\* not marked changed, not written, keeps its content, and is reported no
\* match.
C5_NoMatchNoChange ==
    \A k \in Dispatched :
        (Finished(k) /\ opts.Mode # "lineinfile" /\ NoLineMatches(task[k].input)) =>
            /\ ~task[k].writeBufferToFile
            /\ fs[task[k].File] = [content |-> task[k].input, mtime |-> 0]
            /\ task[k].output.kind = "nomatch"

C5_Witness ==
    \E k \in Dispatched :
        /\ Finished(k) /\ opts.Mode # "lineinfile"
        /\ Len(ReadAll(task[k].input)) >= 2
        /\ NoLineMatches(task[k].input)
        /\ task[k].output.kind = "nomatch"

\* C6: in lineinfile mode, a file without a matching line ends as its lines
\* followed by the replacement of every changeset, in the order of the
\* changesets, and is marked changed.
C6_EnsureAppendsAll ==
    \A k \in Dispatched :
        (Finished(k) /\ opts.Mode = "lineinfile" /\ NoLineMatches(task[k].input)) =>
            /\ task[k].buffer = Join(ReadAll(task[k].input)) \o Join(opts.Replace)
            /\ task[k].writeBufferToFile


\* the line numbers at which changeset i was applied, and at which the line,
\* as it stood when changeset i came to it, held its pattern
HitLines(k, i) == {n \in 1..task[k].lineNo : <<i, n>> \in task[k].hits}
SeenLines(k, i) == {n \in 1..task[k].lineNo : <<i, n>> \in task[k].seen}

\* the input lines with only the first line holding p rewritten
FirstRewritten(p, r, ls) ==
    [n \in DOMAIN ls |->
        IF Matching(p, ls) # {} /\ n = Least(Matching(p, ls))
        THEN Rewritten(p, r, ls[n]) ELSE ls[n]]

\* what lines 121-127 append for one changeset p -> r on the lines ls
Ensured(p, r, ls) ==
    IF opts.Mode = "lineinfile" /\ Matching(p, ls) = {} THEN r \o <<NL>> ELSE <<>>

\* C7: with --once and without --once-remove-match, on fresh flags, every
\* changeset rewrites at most one line, the first line that holds its pattern
\* when the changeset comes to it; with a single changeset the output is the
\* input with only the first matching line rewritten.
C7_OnceFirstMatchOnly ==
    \A k \in Dispatched :
        (opts.Once /\ ~opts.OnceRemoveMatch /\ ~task[k].foreign) =>
            /\ \A i \in DOMAIN changesets :
                  HitLines(k, i) = IF SeenLines(k, i) = {} THEN {}
                                   ELSE {Least(SeenLines(k, i))}
            /\ (Finished(k) /\ Len(changesets) = 1) =>
                  LET ls == ReadAll(task[k].input)
                      p == opts.Search[1]
                      r == opts.Replace[1]
                  IN  task[k].buffer =
                         Join(FirstRewritten(p, r, ls)) \o Ensured(p, r, ls)

C7_Witness ==
    \E k \in Dispatched :
        /\ Finished(k) /\ opts.Once /\ ~opts.OnceRemoveMatch /\ ~task[k].foreign
        /\ \E i \in DOMAIN changesets :
              /\ Cardinality(SeenLines(k, i)) >= 2
              /\ Cardinality(HitLines(k, i)) = 1

\* C8 as claimed: with --once-remove-match, on fresh flags, once a changeset
\* has matched a line, every later input line that holds the changeset's
\* pattern is left out of the output, and the buffer is marked changed.
C8_LaterMatchesDroppedByInput ==
    \A k \in Dispatched :
        (Finished(k) /\ opts.OnceRemoveMatch /\ ~task[k].foreign) =>
            \A i \in DOMAIN changesets : \A m \in HitLines(k, i) :
                \A n \in Matching(opts.Search[i], ReadAll(task[k].input)) :
                    n > m => n \in task[k].dropped /\ task[k].writeBufferToFile

\* C8 amended: with --once-remove-match, on fresh flags, once a changeset has
\* matched a line, every later line that holds the changeset's pattern when
\* the changeset comes to it (after the rewrites by the earlier changesets,
\* and not already dropped by one of them) is left out of the output, and
\* the buffer is marked changed; with a single changeset the output is the
\* input with the first matching line rewritten and the later ones removed.
C8_LaterMatchesDropped ==
    \A k \in Dispatched :
        (opts.OnceRemoveMatch /\ ~task[k].foreign) =>
            /\ \A i \in DOMAIN changesets : \A m \in HitLines(k, i) :
                  \A n \in SeenLines(k, i) :
                      n > m => n \in task[k].dropped /\ task[k].writeBufferToFile
            /\ (Finished(k) /\ Len(changesets) = 1) =>
                  LET ls == ReadAll(task[k].input)
                      p == opts.Search[1]
                      r == opts.Replace[1]
                      later == IF Matching(p, ls) = {} THEN {}
                               ELSE Matching(p, ls) \ {Least(Matching(p, ls))}
                  IN  /\ task[k].dropped = later
                      /\ task[k].buffer =
                            Join(Without(FirstRewritten(p, r, ls), later, 1))
                               \o Ensured(p, r, ls)

C8_Witness ==
    \E k \in Dispatched :
        /\ Finished(k) /\ opts.OnceRemoveMatch /\ ~task[k].foreign
        /\ Len(changesets) = 2
        /\ \E n \in task[k].dropped : <<2, n>> \in task[k].seen

\* C9: in replace mode, with replacement texts free of line breaks, the
\* output has as many lines as the input, whatever the other options.
C9_ReplaceKeepsLineCount ==
    \A k \in Dispatched :
        (/\ Finished(k) /\ opts.Mode = "replace"
         /\ \A i \in DOMAIN opts.Replace : ~Occurs(<<NL>>, opts.Replace[i])) =>
            Len(ReadAll(task[k].buffer)) = Len(ReadAll(task[k].input))

\* the input line l after the changesets i.. in whole-line mode without --once
RECURSIVE WholeLineFrom(_, _)
WholeLineFrom(l, i) ==
    IF i > Len(opts.Search) THEN l
    ELSE WholeLineFrom(IF Occurs(opts.Search[i], l) THEN opts.Replace[i] ELSE l, i + 1)

IsPrefix(s, t) == Len(s) <= Len(t) /\ SubSeq(t, 1, Len(s)) = s

\* C10: in line and lineinfile mode, the step that applies a changeset to a
\* line leaves the line as exactly the changeset's replacement text; without
\* --once the output starts with the input lines, each matching line as the
\* replacement text (of the last changeset that applied) and each other line
\* as it was.
C10_WholeLineReplaced ==
    /\ [](\A k \in Dispatched :
            (Finished(k) /\ WholeLine /\ ~opts.Once) =>
                LET ls == ReadAll(task[k].input)
                IN  IsPrefix(Join([n \in DOMAIN ls |-> WholeLineFrom(ls[n], 1)]),
                             task[k].buffer))
    /\ [][\A k \in Dispatched :
            (WholeLine /\ task'[k].hits # task[k].hits) =>
                LET r == opts.Replace[task[k].i]
                IN  IF task[k].i < Len(changesets)
                    THEN task'[k].line = r
                    ELSE task'[k].buffer = task[k].buffer \o r \o <<NL>>]_vars

C10_Witness ==
    \E k \in Dispatched :
        /\ Finished(k) /\ WholeLine /\ ~opts.Once /\ Len(changesets) = 1
        /\ opts.Search[1] # opts.Replace[1]
        /\ LET ls == ReadAll(task[k].input)
           IN  /\ Len(ls) = 2
               /\ Len(ls[1]) = 2 /\ Occurs(opts.Search[1], ls[1])
               /\ ~Occurs(opts.Search[1], ls[2])
               /\ task[k].buffer = Join(<<opts.Replace[1], ls[2]>>)


-----------------------------------------------------------------------------

\* the positions of l at which the matches of p start, from position k on:
\* the leftmost match, then the leftmost one after its end, and so on
RECURSIVE MatchStarts(_, _, _)
MatchStarts(p, l, k) ==
    IF k + Len(p) - 1 > Len(l) THEN {}
    ELSE IF \A j \in 1..Len(p) : l[k + j - 1] = p[j]
         THEN {k} \cup MatchStarts(p, l, k + Len(p))
         ELSE MatchStarts(p, l, k + 1)

\* l, position by position from k on: r where a match starts, nothing for the
\* rest of a match, the letter of l everywhere else
RECURSIVE Portions(_, _, _, _)
Portions(p, r, l, k) ==
    IF k > Len(l) THEN <<>>
    ELSE (IF k \in MatchStarts(p, l, 1) THEN r
          ELSE IF \E m \in MatchStarts(p, l, 1) : m < k /\ k < m + Len(p) THEN <<>>
          ELSE <<l[k]>>) \o Portions(p, r, l, k + 1)

\* C11: in replace mode, a matching line comes out with every matched portion
\* replaced by the replacement text and every other letter unchanged and in
\* place; a line without a match comes out as it is.
C11_MatchedPortionsReplaced ==
    \A k \in Dispatched :
        (/\ Finished(k) /\ opts.Mode = "replace" /\ Len(changesets) = 1
         /\ ~task[k].foreign
         /\ (~opts.Once \/ Len(ReadAll(task[k].input)) <= 1)) =>
            LET ls == ReadAll(task[k].input)
            IN  task[k].buffer =
                   Join([n \in DOMAIN ls |->
                           Portions(opts.Search[1], opts.Replace[1], ls[n], 1)])

C11_Witness ==
    \E k \in Dispatched :
        /\ Finished(k) /\ opts.Mode = "replace" /\ Len(changesets) = 1
        /\ LET ls == ReadAll(task[k].input)
           IN  /\ Len(ls) = 1
               /\ Cardinality(MatchStarts(opts.Search[1], ls[1], 1)) > 1
               /\ Len(ls[1]) > 2 * Len(opts.Search[1])
               /\ Len(opts.Replace[1]) > 1
               /\ task[k].buffer # task[k].input
               /\ task[k].output.kind = "replaced"


\* C12: with --dry-run no step of the run changes any file; a finished task
\* leaves its file with the content it read and never written, and when its
\* buffer differs from what a run without changes gives (the changed flag is
\* set) its result carries the buffer as output and the status success.
C12_DryRunWritesNothing ==
    /\ [][opts.DryRun => fs' = fs]_vars
    /\ [](opts.DryRun =>
            \A k \in Dispatched :
                Finished(k) =>
                    /\ fs[task[k].File] = [content |-> task[k].input, mtime |-> 0]
                    /\ task[k].writeBufferToFile =>
                          /\ task[k].output = [kind |-> "content",
                                               path |-> task[k].File,
                                               text |-> task[k].buffer]
                          /\ task[k].status)

C12_Witness ==
    \E k \in Dispatched :
        /\ opts.DryRun /\ task[k].pc = "sent"
        /\ printed[Len(printed)] = [File |-> task[k].File,
                                    Output |-> [kind |-> "content",
                                                path |-> task[k].File,
                                                text |-> task[k].buffer],
                                    Status |-> TRUE]
        /\ task[k].buffer # task[k].input
        /\ fs[task[k].File].content = task[k].input


\* C13: a second run in replace mode on a file that the first run has left
\* without an occurrence of the search term writes nothing: no step changes
\* the file, and the finished task has the changed flag unset, reports no
\* match and leaves the content of the first run.
C13_SecondRunNoOp ==
    /\ [][(opts.Mode = "replace" /\ \A p \in DOMAIN fs : NoLineMatches(fs[p].content))
             => fs' = fs]_vars
    /\ [](\A k \in Dispatched :
            (Finished(k) /\ opts.Mode = "replace" /\ NoLineMatches(task[k].input)) =>
                /\ ~task[k].writeBufferToFile
                /\ task[k].output.kind = "nomatch"
                /\ fs[task[k].File].content = task[k].input
                /\ fs[task[k].File].mtime <= 1)

\* the first run has rewritten the file, the second one has found no match
C13_Witness ==
    \E k \in Dispatched :
        /\ Finished(k) /\ opts.Mode = "replace"
        /\ fs[task[k].File].mtime = 1
        /\ NoLineMatches(task[k].input)
        /\ Occurs(opts.Replace[1], ReadAll(task[k].input)[1])
        /\ Len(opts.Replace[1]) > 0
        /\ task[k].output.kind = "nomatch"


\* C14: the paths of the dispatched tasks are pairwise different, and no two
\* tasks are at the same time about to write the same file.
C14_TaskPathsDistinct ==
    \A j \in Dispatched : \A k \in Dispatched :
        j # k =>
            /\ task[j].File # task[k].File
            /\ ~(/\ task[j].File = task[k].File /\ ~opts.DryRun
                 /\ task[j].pc = "finalize" /\ task[j].writeBufferToFile
                 /\ task[k].pc = "finalize" /\ task[k].writeBufferToFile)


\* C15: once a task has failed to open or to write its file the run does not
\* end with status 0, and every result produced has the status success.
C15_FailureAbortsRun ==
    /\ (\E k \in Dispatched : task[k].pc = "panic") => exit # "0"
    /\ \A k \in Dispatched : task[k].status
    /\ \A j \in DOMAIN printed : printed[j].Status


\* the file list main checks at line 379: the arguments with the files found
\* under --path, which Setup appends
FileList == IF Running /\ mainPc = "setup" THEN args \o searchFilesInPath(opts.Path)
            ELSE args

UnequalTerms == Len(opts.Search) # Len(opts.Replace)
InvalidPattern == opts.Regex /\ \E i \in DOMAIN opts.Search : opts.Search[i] = <<"(">>
NoInput == Len(FileList) = 0
SetupError == UnequalTerms \/ InvalidPattern \/ (NoInput /\ ~opts.IgnoreEmpty)

\* no task has been started, no file opened or written, nothing reported
NothingTouched ==
    /\ mainPc = "setup" /\ next = 1 /\ wg = 0 /\ printed = <<>>
    /\ \A k \in Tasks : task[k] = NewTask(0)
    /\ \A p \in DOMAIN fs : fs[p].mtime = 0

\* C16: with unequal numbers of search and replace terms, a pattern that does
\* not compile, or no input file and no --ignore-empty, the run never leaves
\* the setup, touches nothing, and its one step ends it with status 1 or a
\* panic; with no input file, --ignore-empty and no such error the one step
\* ends it with status 0, and nothing is touched either.
C16_SetupErrorsBeforeDispatch ==
    /\ [](SetupError => NothingTouched /\ exit \in {"running", "1", "panic"})
    /\ [][(SetupError /\ Running) => exit' \in {"1", "panic"}]_vars
    /\ []((NoInput /\ opts.IgnoreEmpty /\ ~SetupError) =>
             NothingTouched /\ exit \in {"running", "0"})
    /\ [][(NoInput /\ opts.IgnoreEmpty /\ ~SetupError /\ Running) => exit' = "0"]_vars

\* a file was named, the pattern did not compile: the run has ended in a
\* panic and the file is untouched
C16_Witness ==
    /\ exit = "panic" /\ InvalidPattern /\ ~UnequalTerms
    /\ Len(args) = 1
    /\ NothingTouched


\* C17: in every state in which a task has been started, --once-remove-match
\* set means --once set; the options main works with are the same whether
\* --once was given along with --once-remove-match or not, and a finished
\* task has the buffer and the changed flag of a run with both flags.
C17_RemoveMatchImpliesOnce ==
    /\ (mainPc # "setup" \/ \E k \in Tasks : task[k].pc # "idle") =>
          (opts.OnceRemoveMatch => opts.Once)
    /\ (mainPc = "setup" /\ opts.OnceRemoveMatch) =>
          handleSpecialCliOptions(opts)
             = handleSpecialCliOptions([opts EXCEPT !.Once = TRUE])
    /\ \A k \in Dispatched :
          (Finished(k) /\ opts.OnceRemoveMatch /\ ~task[k].foreign) =>
              LET both == applyAlone(task[k].input, [opts EXCEPT !.Once = TRUE])
              IN  /\ task[k].buffer = both.buffer
                  /\ task[k].writeBufferToFile = both.writeBufferToFile

\* a task evaluates a changeset that has matched before, with both flags set,
\* on a line that matches again
C17_Witness ==
    \E k \in Dispatched :
        /\ task[k].pc = "eval"
        /\ opts.OnceRemoveMatch /\ opts.Once
        /\ task[k].changeset.MatchFound
        /\ searchMatch(task[k].line, task[k].changeset)


\* line l taken through the changesets i, i + 1, ... in this order, each
\* looking for its term in what the ones before it have made of l
RECURSIVE ComposedFrom(_, _)
ComposedFrom(l, i) ==
    IF i > Len(opts.Search) THEN l
    ELSE ComposedFrom(IF ~Occurs(opts.Search[i], l) THEN l
                      ELSE IF WholeLine THEN opts.Replace[i]
                      ELSE Portions(opts.Search[i], opts.Replace[i], l, 1),
                      i + 1)

\* C18: on one line the changesets are taken in the order given, one after
\* the other; without --once the output starts with the input lines, each
\* taken through all changesets from left to right, every changeset matched
\* against what the earlier ones have made of the line; a changeset whose
\* term is in the line as rewritten is applied and its MatchFound is set.
C18_ChangesetsComposeInOrder ==
    /\ [](\A k \in Dispatched :
            ~opts.Once =>
                /\ Finished(k) =>
                      LET ls == ReadAll(task[k].input)
                      IN  IsPrefix(Join([n \in DOMAIN ls |-> ComposedFrom(ls[n], 1)]),
                                   task[k].buffer)
                /\ \A h \in task[k].seen :
                      h \in task[k].hits /\ changesets[h[1]].MatchFound)
    /\ [][\A k \in Dispatched :
            (task[k].pc = "eval" /\ task'[k].pc = "copy") =>
                \/ task'[k].lineNo = task[k].lineNo /\ task'[k].i = task[k].i + 1
                \/ task'[k].lineNo = task[k].lineNo + 1 /\ task'[k].i = 1]_vars

\* the second changeset has rewritten a line that held its term only after
\* the first changeset had rewritten it
C18_Witness ==
    \E k \in Dispatched :
        /\ Finished(k) /\ ~opts.Once /\ Len(changesets) = 2
        /\ \E n \in DOMAIN ReadAll(task[k].input) :
              /\ <<1, n>> \in task[k].hits /\ <<2, n>> \in task[k].hits
              /\ ~Occurs(opts.Search[2], ReadAll(task[k].input)[n])
              /\ ComposedFrom(ReadAll(task[k].input)[n], 1) = opts.Replace[2]
        /\ changesets[2].MatchFound


\* the lines that changesets i, i + 1, ... can make of line l, each of them
\* applied or passed over
RECURSIVE Outcomes(_, _)
Outcomes(l, i) ==
    IF i > Len(opts.Search) THEN {l}
    ELSE Outcomes(l, i + 1)
            \cup (IF Occurs(opts.Search[i], l)
                  THEN Outcomes(IF WholeLine THEN opts.Replace[i]
                                ELSE Portions(opts.Search[i], opts.Replace[i], l, 1),
                                i + 1)
                  ELSE {})

\* the numbers 1..n that are not in out, in rising order
RECURSIVE Kept(_, _)
Kept(n, out) ==
    IF n = 0 THEN <<>>
    ELSE Kept(n - 1, out) \o (IF n \in out THEN <<>> ELSE <<n>>)

\* s is t with some elements left out
RECURSIVE IsSubSeq(_, _)
IsSubSeq(s, t) ==
    IF s = <<>> THEN TRUE
    ELSE IF t = <<>> THEN FALSE
    ELSE IF Head(s) = Head(t) THEN IsSubSeq(Tail(s), Tail(t))
    ELSE IsSubSeq(s, Tail(t))

\* C19: the buffer only ever grows at its end and the lines are taken in the
\* order of the file; when the file is done the buffer holds, for the input
\* lines that were not dropped and in their order, one line each, made of the
\* input line by the changesets, and the input line itself when no changeset
\* found its term in it; after these lines come, in lineinfile mode only,
\* replacement texts in the order of their changesets.
C19_LineOrderKept ==
    /\ [](\A k \in Dispatched :
            Finished(k) =>
                LET ls == ReadAll(task[k].input)
                    out == ReadAll(task[k].buffer)
                    kept == Kept(Len(ls), task[k].dropped)
                    m == Len(kept)
                IN  /\ task[k].buffer = Join(out)
                    /\ Len(out) >= m
                    /\ \A j \in 1..m :
                          /\ out[j] \in Outcomes(ls[kept[j]], 1)
                          /\ (\A i \in DOMAIN changesets :
                                 <<i, kept[j]>> \notin task[k].seen)
                                => out[j] = ls[kept[j]]
                    /\ IF opts.Mode = "lineinfile"
                       THEN IsSubSeq(SubSeq(out, m + 1, Len(out)), opts.Replace)
                       ELSE Len(out) = m)
    /\ [][\A k \in Dispatched :
            /\ IsPrefix(task[k].buffer, task'[k].buffer)
            /\ task'[k].lineNo \in {task[k].lineNo, task[k].lineNo + 1}
            /\ (task[k].pc = "ensure" /\ task'[k] # task[k]) =>
                   task'[k].pc \in {"ensure", "finalize", "panic"}]_vars

\* lineinfile mode on two lines: one without any match is kept as it was,
\* the other is rewritten, and a replacement text is appended behind them
C19_Witness ==
    \E k \in Dispatched :
        /\ Finished(k) /\ opts.Mode = "lineinfile" /\ task[k].dropped = {}
        /\ LET ls == ReadAll(task[k].input)
               out == ReadAll(task[k].buffer)
           IN  /\ Len(ls) = 2 /\ Len(out) = 3
               /\ \A i \in DOMAIN changesets : <<i, 1>> \notin task[k].seen
               /\ out[1] = ls[1]
               /\ <<1, 2>> \in task[k].hits
               /\ out[2] # ls[2]


\* the output of task k holds a line that is the replacement text of
\* changeset i
HasLine(k, i) ==
    \E j \in DOMAIN ReadAll(task[k].buffer) :
        ReadAll(task[k].buffer)[j] = opts.Replace[i]

\* C20 as claimed: in lineinfile mode, for a file processed with fresh flags,
\* the output holds for every changeset a line equal to its replacement text.
C20_EveryReplacementInOutput ==
    \A k \in Dispatched :
        (Finished(k) /\ opts.Mode = "lineinfile" /\ ~task[k].foreign) =>
            \A i \in DOMAIN changesets : HasLine(k, i)

\* C20: in lineinfile mode, for a file processed with fresh flags and every
\* changeset: a changeset that matched no line has its replacement text
\* appended behind the input lines; for one that matched, the output holds a
\* line equal to its replacement text unless a line it rewrote was afterwards
\* rewritten by a later changeset or dropped by --once-remove-match.
C20_ReplacementInOutputUnlessOverwritten ==
    \A k \in Dispatched :
        (Finished(k) /\ opts.Mode = "lineinfile" /\ ~task[k].foreign) =>
            \A i \in DOMAIN changesets :
                LET ls == ReadAll(task[k].input)
                    out == ReadAll(task[k].buffer)
                    m == Len(Kept(Len(ls), task[k].dropped))
                    lost == \E n \in DOMAIN ls :
                               /\ <<i, n>> \in task[k].hits
                               /\ \/ n \in task[k].dropped
                                  \/ \E j \in DOMAIN changesets :
                                        j > i /\ <<j, n>> \in task[k].hits
                IN  /\ HasLine(k, i) \/ lost
                    /\ HitLines(k, i) # {} => changesets[i].MatchFound
                    /\ HitLines(k, i) = {} =>
                          \E j \in (m + 1)..Len(out) : out[j] = opts.Replace[i]

\* two changesets, one line: the first has rewritten the line in place, the
\* second has matched nothing and its replacement text is appended
C20_Witness ==
    \E k \in Dispatched :
        /\ Finished(k) /\ opts.Mode = "lineinfile" /\ Len(changesets) = 2
        /\ opts.Replace[1] # opts.Replace[2]
        /\ LET ls == ReadAll(task[k].input)
           IN  /\ Len(ls) = 1
               /\ task[k].hits = {<<1, 1>>}
               /\ ls[1] # opts.Replace[1]
               /\ task[k].buffer = opts.Replace[1] \o <<NL>> \o opts.Replace[2] \o <<NL>>

====
